---------------------------- MODULE Spec2Model ----------------------------
(***************************************************************************)
(* chgentree (src/main.go): discovery of an organization hierarchy by      *)
(* recursive, concurrent remote lookups (InitTree / buildOrgTree), a       *)
(* second concurrent pass that fills every environment's application list  *)
(* (generateApplications), a sequential flattening of the tree by          *)
(* organization name (flattenTree) and the two writes of main; and the     *)
(* search of the tree for a deployed domain (searchForArtifact), which     *)
(* main does not call and which is run here by a caller of its own.        *)
(*                                                                         *)
(* Encoding.  Organization ids are the numbers 1..NumOrgs (the empty       *)
(* string is NoId = 0); the root id given on the command line is 1.  A     *)
(* *Node is named by the path of requested ids that leads to it from the   *)
(* root, <<1>>, <<1, 2>>, ...: one name per allocation `&Node{...}`.  The   *)
(* remote services are the test doubles RemoteDirectory (the variable      *)
(* directory, drawn in Init) and RemoteInventory (InventoryOf); each HTTP  *)
(* exchange ends in one of three ways: a 200 reply, a reply with another   *)
(* status, or an error of the call itself.                                 *)
(***************************************************************************)
EXTENDS Integers, Sequences, FiniteSets, TLC

\* ------------------------------------------------------------------ bounds
\* Number of organization ids the remote directory knows.
NumOrgs == 3
\* Number of parent-child links in the remote directory.
MaxLinks == 3
\* Number of replies with a non-200 status the remote directory may give in
\* one run (such a reply does not end the run, see getOrganizationMetrics).
MaxNonOK == 1
\* Length of the longest path of ids the model follows from the root (only
\* a directory with a cycle has paths that long).
MaxDepth == 4

\* ------------------------------------------------------------ remote data
NoId == 0
OrgIds == 1..NumOrgs

NameTable == <<"A", "B", "C", "D", "E", "F">>
NameOf(id) == NameTable[id]

\* type Environment struct { ID; Name; Applications }
Env(id, name) == [ID |-> id, Name |-> name, Applications |-> <<>>]

\* The environments the directory reports for each organization.
EnvTable ==
  << <<>>,
     <<Env("env-1", "prod")>>,
     <<Env("env-2", "dev"), Env("env-3", "qa")>>,
     <<>>,
     <<>>,
     <<>> >>
EnvsOf(id) == EnvTable[id]

\* type Application struct { Domain; FullDomain; Status; ... }
App(domain, status) == [Domain |-> domain, Status |-> status]

\* RemoteInventory: the applications deployed under an environment id.
InventoryOf(envId) ==
  CASE envId = "env-1" -> <<App("x.example", "STARTED")>>
    [] envId = "env-2" -> <<>>
    [] envId = "env-3" -> <<App("y.example", "STARTED"), App("x.example", "UNDEPLOYED")>>
    [] OTHER           -> <<App("z.example", "STARTED")>>

\* type Organization struct { Name; ID; SubOrganizationIds; Environments }
\* The zero Organization: what json.Unmarshal leaves when the body holds none
\* of the fields (the body of a non-200 reply).
ZeroOrganization ==
  [Name |-> "", ID |-> NoId, SubOrganizationIds |-> <<>>, Environments |-> <<>>]

\* Duplicate-free sequences over S.
RECURSIVE SeqsNoDup(_)
SeqsNoDup(S) ==
  {<<>>} \cup UNION {{<<x>> \o s : s \in SeqsNoDup(S \ {x})} : x \in S}

\* The organizations reachable from id 1 in directory d.
RECURSIVE ReachableFrom(_, _)
ReachableFrom(d, S) ==
  LET T == S \cup UNION {{d[i][k] : k \in 1..Len(d[i])} : i \in S}
  IN  IF T = S THEN S ELSE ReachableFrom(d, T)

RECURSIVE SumLen(_, _)
SumLen(d, k) == IF k = 0 THEN 0 ELSE Len(d[k]) + SumLen(d, k - 1)

\* The remote directories of the model: every organization lists, in some
\* order and without repetition, organizations of a higher id, so that the
\* directory is finite and acyclic; there are at most MaxLinks links in all
\* and only organizations reachable from the root list any.  An
\* organization may be listed by two parents.
RECURSIVE ListsFrom(_)
ListsFrom(i) ==
  IF i > NumOrgs THEN {<<>>}
  ELSE {<<s>> \o d : s \in SeqsNoDup((i + 1)..NumOrgs), d \in ListsFrom(i + 1)}

AcyclicDirectories ==
  {d \in ListsFrom(1) :
     /\ SumLen(d, NumOrgs) <= MaxLinks
     /\ \A i \in OrgIds \ ReachableFrom(d, {1}) : d[i] = <<>>}

VARIABLES
  rootID, username, password,  \* the command-line flags
  directory,                   \* RemoteDirectory: id -> child ids
  pc,                          \* position of the main goroutine
  exitCode,                    \* -1 while the process runs, else its status
  tree,                        \* the *Node objects: path -> Node
  head,                        \* main's head (a path), <<>> before InitTree returns
  wgInit,                      \* counter of InitTree's WaitGroup g
  wgMain,                      \* counter of main's WaitGroup g
  build,                       \* the buildOrgTree activations: path -> frame
  gen,                         \* the generateApplications activations
  faults,                      \* the remote calls that failed, in order (ghost)
  orgMap,                      \* main's orgMap: name -> Organization
  values,                      \* main's values slice
  writes,                      \* the writeMetricsFile calls made, in order
  pass,                        \* number of Enricher passes started (ghost)
  afterFirst,                  \* the tree when the first pass ended (ghost)
  search,                      \* the searchForArtifact activations
  domain,                      \* the domain searchForArtifact is called with
  stdout,                      \* what searchForArtifact has printed, in order
  assigned                     \* the tasks that assigned each Environment's
                               \* Applications in the current pass (ghost)

vars == <<rootID, username, password, directory, pc, exitCode, tree, head,
          wgInit, wgMain, build, gen, faults, orgMap, values, writes, pass, afterFirst,
          search, domain, stdout, assigned>>

Running == exitCode = -1

\* The non-200 replies the directory has given so far.
nonOK == Len(SelectSeq(faults, LAMBDA f : f = "directory status"))

\* type Node struct { mux; BusinessOrganization; Children }
Node(organization) ==
  [mux |-> FALSE, BusinessOrganization |-> organization, Children |-> <<>>]

\* The body RemoteDirectory returns for orgID, already decoded.
Resolve(dir, orgID) ==
  [Name |-> NameOf(orgID), ID |-> orgID,
   SubOrganizationIds |-> dir[orgID], Environments |-> EnvsOf(orgID)]

\* getOrganizationMetrics followed by json.Unmarshal: a non-200 status is
\* printed and the body is decoded all the same.
getOrganizationMetrics(dir, orgID, status) ==
  IF status = 200 THEN Resolve(dir, orgID) ELSE ZeroOrganization

\* errorCheck(err) with err # nil, and the os.Exit(1) of getDeployedArtifacts.
Exit(code) ==
  /\ exitCode' = code
  /\ pc' = "exited"

Init ==
  /\ rootID \in {NoId, 1}
  /\ username \in {"", "user"}
  /\ password \in {"", "secret"}
  /\ directory \in AcyclicDirectories
  /\ pc = "main"
  /\ exitCode = -1
  /\ tree = <<>>
  /\ head = <<>>
  /\ wgInit = 0
  /\ wgMain = 0
  /\ build = <<>>
  /\ gen = <<>>
  /\ faults = <<>>
  /\ orgMap = <<>>
  /\ values = <<>>
  /\ writes = <<>>
  /\ pass = 0
  /\ afterFirst = <<>>
  /\ search = <<>>
  /\ domain = ""
  /\ stdout = <<>>
  /\ assigned = <<>>

\* ---------------------------------------------------------------- helpers
Root == <<1>>

\* The field updates of the model: node n of the tree, frame n of a pass.
SetNode(n, field, val) == [tree EXCEPT ![n][field] = val]
SetBuild(n, frame) == [build EXCEPT ![n] = frame]

SubIds(n) == tree[n].BusinessOrganization.SubOrganizationIds

\* --------------------------------------------------------------- main, 1
\* Mutant: only the root id is required.
main_flags_rootOnly ==
  /\ Running /\ pc = "main"
  /\ IF rootID = NoId
       THEN Exit(1)
       ELSE pc' = "InitTree" /\ exitCode' = exitCode
  /\ UNCHANGED <<rootID, username, password, directory, tree, head, wgInit,
                 wgMain, build, gen, faults, orgMap, values, writes, pass, afterFirst,
                 search, domain, stdout, assigned>>

\* main, lines 216-226: the three flags are required.
main_flags ==
  /\ Running /\ pc = "main"
  /\ IF rootID = NoId \/ username = "" \/ password = ""
       THEN Exit(1)
       ELSE pc' = "InitTree" /\ exitCode' = exitCode
  /\ UNCHANGED <<rootID, username, password, directory, tree, head, wgInit,
                 wgMain, build, gen, faults, orgMap, values, writes, pass, afterFirst,
                 search, domain, stdout, assigned>>

\* --------------------------------------------------------------- InitTree
\* InitTree, lines 70-73: the root is resolved synchronously; the reply
\* has status 200 (or another status, which is only printed).
InitTree_reply(status) ==
  /\ Running /\ pc = "InitTree"
  /\ status # 200 => nonOK < MaxNonOK
  /\ faults' = IF status = 200 THEN faults ELSE Append(faults, "directory status")
  /\ tree' = (Root :> Node(getOrganizationMetrics(directory, rootID, status)))
  /\ pc' = "InitTree_Add"
  /\ UNCHANGED <<rootID, username, password, directory, exitCode, head, wgInit,
                 wgMain, build, gen, orgMap, values, writes, pass, afterFirst,
                 search, domain, stdout, assigned>>

\* getOrganizationMetrics, lines 107-108, 113-114, 121-122: errorCheck.
InitTree_error ==
  /\ Running /\ pc = "InitTree"
  /\ Exit(1)
  /\ faults' = Append(faults, "directory transport")
  /\ UNCHANGED <<rootID, username, password, directory, tree, head, wgInit,
                 wgMain, build, gen, orgMap, values, writes, pass, afterFirst,
                 search, domain, stdout, assigned>>

\* InitTree, line 76: g.Add(1).
InitTree_Add ==
  /\ Running /\ pc = "InitTree_Add"
  /\ wgInit' = wgInit + 1
  /\ pc' = "InitTree_call"
  /\ UNCHANGED <<rootID, username, password, directory, exitCode, tree, head,
                 wgMain, build, gen, faults, orgMap, values, writes, pass, afterFirst,
                 search, domain, stdout, assigned>>

\* A fresh activation of buildOrgTree: the range loop has consumed i ids.
BuildFrame == [pc |-> "range", i |-> 0]

\* InitTree, line 77: node.buildOrgTree(g), called on the main goroutine.
InitTree_call ==
  /\ Running /\ pc = "InitTree_call"
  /\ build' = (Root :> BuildFrame)
  /\ pc' = "InitTree_build"
  /\ UNCHANGED <<rootID, username, password, directory, exitCode, tree, head,
                 wgInit, wgMain, gen, faults, orgMap, values, writes, pass, afterFirst,
                 search, domain, stdout, assigned>>

\* Mutant: the wait does not wait.
WaitReturns_atOnce(counter) == TRUE

\* sync.WaitGroup.Wait returns when the counter is zero.
WaitReturns(counter) == counter = 0

\* InitTree, lines 78-80: g.Wait() and the return of the root.
InitTree_Wait ==
  /\ Running /\ pc = "InitTree_Wait"
  /\ WaitReturns(wgInit)
  /\ head' = Root
  /\ pc' = "main_Add"
  /\ UNCHANGED <<rootID, username, password, directory, exitCode, tree,
                 wgInit, wgMain, build, gen, faults, orgMap, values, writes, pass, afterFirst,
                 search, domain, stdout, assigned>>

\* ----------------------------------------------------------- buildOrgTree
\* The child id of the current iteration and the node built for it.
CurrentId(n) == SubIds(n)[build[n].i]
Child(n) == n \o <<CurrentId(n)>>

\* Mutant: an id that is already on the path from the root is skipped (a
\* visited check).
buildOrgTree_range_visited(n) ==
  /\ Running /\ build[n].pc = "range"
  /\ build[n].i < Len(SubIds(n))
  /\ Len(n) < MaxDepth
  /\ build' = SetBuild(n,
       [pc |-> IF \E k \in 1..Len(n) : n[k] = SubIds(n)[build[n].i + 1]
                 THEN "range" ELSE "http",
        i  |-> build[n].i + 1])
  /\ UNCHANGED <<rootID, username, password, directory, pc, exitCode, tree, head,
                 wgInit, wgMain, gen, faults, orgMap, values, writes, pass, afterFirst,
                 search, domain, stdout, assigned>>

\* buildOrgTree, lines 85-86: the next id of the range; the lookup is sent.
\* (The model follows the directory down to paths of MaxDepth ids.)
buildOrgTree_range(n) ==
  /\ Running /\ build[n].pc = "range"
  /\ build[n].i < Len(SubIds(n))
  /\ Len(n) < MaxDepth
  /\ build' = SetBuild(n, [pc |-> "http", i |-> build[n].i + 1])
  /\ UNCHANGED <<rootID, username, password, directory, pc, exitCode, tree, head,
                 wgInit, wgMain, gen, faults, orgMap, values, writes, pass, afterFirst,
                 search, domain, stdout, assigned>>

\* buildOrgTree, lines 86-90: the reply, decoded, becomes a new Node.
buildOrgTree_reply(n, status) ==
  /\ Running /\ build[n].pc = "http"
  /\ status # 200 => nonOK < MaxNonOK
  /\ faults' = IF status = 200 THEN faults ELSE Append(faults, "directory status")
  /\ tree' = tree @@
       (Child(n) :> Node(getOrganizationMetrics(directory, CurrentId(n), status)))
  /\ build' = SetBuild(n, [build[n] EXCEPT !.pc = "Lock"])
  /\ UNCHANGED <<rootID, username, password, directory, pc, exitCode, head,
                 wgInit, wgMain, gen, orgMap, values, writes, pass, afterFirst,
                 search, domain, stdout, assigned>>

\* getOrganizationMetrics, lines 107-108, 113-114, 121-122: errorCheck
\* ends the process from whichever goroutine made the call.
buildOrgTree_error(n) ==
  /\ Running /\ build[n].pc = "http"
  /\ Exit(1)
  /\ faults' = Append(faults, "directory transport")
  /\ UNCHANGED <<rootID, username, password, directory, tree, head, wgInit,
                 wgMain, build, gen, orgMap, values, writes, pass, afterFirst,
                 search, domain, stdout, assigned>>

\* buildOrgTree, line 92: p.mux.Lock().
buildOrgTree_Lock(n) ==
  /\ Running /\ build[n].pc = "Lock"
  /\ ~tree[n].mux
  /\ tree' = SetNode(n, "mux", TRUE)
  /\ build' = SetBuild(n, [build[n] EXCEPT !.pc = "append"])
  /\ UNCHANGED <<rootID, username, password, directory, pc, exitCode, head,
                 wgInit, wgMain, gen, faults, orgMap, values, writes, pass, afterFirst,
                 search, domain, stdout, assigned>>

\* Mutant: the append overwrites the list (a lost update).
buildOrgTree_append_overwrite(n) ==
  /\ Running /\ build[n].pc = "append"
  /\ tree' = SetNode(n, "Children", <<Child(n)>>)
  /\ build' = SetBuild(n, [build[n] EXCEPT !.pc = "Unlock"])
  /\ UNCHANGED <<rootID, username, password, directory, pc, exitCode, head,
                 wgInit, wgMain, gen, faults, orgMap, values, writes, pass, afterFirst,
                 search, domain, stdout, assigned>>

\* Mutant: the node is appended twice.
buildOrgTree_append_twice(n) ==
  /\ Running /\ build[n].pc = "append"
  /\ tree' = SetNode(n, "Children", tree[n].Children \o <<Child(n), Child(n)>>)
  /\ build' = SetBuild(n, [build[n] EXCEPT !.pc = "Unlock"])
  /\ UNCHANGED <<rootID, username, password, directory, pc, exitCode, head,
                 wgInit, wgMain, gen, faults, orgMap, values, writes, pass, afterFirst,
                 search, domain, stdout, assigned>>

\* Mutant: the node is put in front of the list.
buildOrgTree_append_prepend(n) ==
  /\ Running /\ build[n].pc = "append"
  /\ tree' = SetNode(n, "Children", <<Child(n)>> \o tree[n].Children)
  /\ build' = SetBuild(n, [build[n] EXCEPT !.pc = "Unlock"])
  /\ UNCHANGED <<rootID, username, password, directory, pc, exitCode, head,
                 wgInit, wgMain, gen, faults, orgMap, values, writes, pass, afterFirst,
                 search, domain, stdout, assigned>>

\* buildOrgTree, line 93: p.Children = append(p.Children, node).
buildOrgTree_append(n) ==
  /\ Running /\ build[n].pc = "append"
  /\ tree' = SetNode(n, "Children", Append(tree[n].Children, Child(n)))
  /\ build' = SetBuild(n, [build[n] EXCEPT !.pc = "Unlock"])
  /\ UNCHANGED <<rootID, username, password, directory, pc, exitCode, head,
                 wgInit, wgMain, gen, faults, orgMap, values, writes, pass, afterFirst,
                 search, domain, stdout, assigned>>

\* Mutant: after the unlock the child is started at once, unregistered.
buildOrgTree_Unlock_thenGo(n) ==
  /\ Running /\ build[n].pc = "Unlock"
  /\ tree' = SetNode(n, "mux", FALSE)
  /\ build' = SetBuild(n, [build[n] EXCEPT !.pc = "go"])
  /\ UNCHANGED <<rootID, username, password, directory, pc, exitCode, head,
                 wgInit, wgMain, gen, faults, orgMap, values, writes, pass, afterFirst,
                 search, domain, stdout, assigned>>

\* buildOrgTree, line 94: p.mux.Unlock().
buildOrgTree_Unlock(n) ==
  /\ Running /\ build[n].pc = "Unlock"
  /\ tree' = SetNode(n, "mux", FALSE)
  /\ build' = SetBuild(n, [build[n] EXCEPT !.pc = "Add"])
  /\ UNCHANGED <<rootID, username, password, directory, pc, exitCode, head,
                 wgInit, wgMain, gen, faults, orgMap, values, writes, pass, afterFirst,
                 search, domain, stdout, assigned>>

\* Mutant: the child is started without being registered.
buildOrgTree_Add_missing(n) ==
  /\ Running /\ build[n].pc = "Add"
  /\ build' = SetBuild(n, [build[n] EXCEPT !.pc = "go"])
  /\ UNCHANGED <<rootID, username, password, directory, pc, exitCode, tree, head, wgInit,
                 wgMain, gen, faults, orgMap, values, writes, pass, afterFirst,
                 search, domain, stdout, assigned>>

\* buildOrgTree, line 96: g.Add(1).
buildOrgTree_Add(n) ==
  /\ Running /\ build[n].pc = "Add"
  /\ wgInit' = wgInit + 1
  /\ build' = SetBuild(n, [build[n] EXCEPT !.pc = "go"])
  /\ UNCHANGED <<rootID, username, password, directory, pc, exitCode, tree, head,
                 wgMain, gen, faults, orgMap, values, writes, pass, afterFirst,
                 search, domain, stdout, assigned>>

\* Mutant: the go statement is missing, the child's task never starts.
buildOrgTree_go_missing(n) ==
  /\ Running /\ build[n].pc = "go"
  /\ build' = SetBuild(n, [build[n] EXCEPT !.pc = "range"])
  /\ UNCHANGED <<rootID, username, password, directory, pc, exitCode, tree, head,
                 wgInit, wgMain, gen, faults, orgMap, values, writes, pass, afterFirst,
                 search, domain, stdout, assigned>>

\* buildOrgTree, line 97: go node.buildOrgTree(g).
buildOrgTree_go(n) ==
  /\ Running /\ build[n].pc = "go"
  /\ build' = SetBuild(n, [build[n] EXCEPT !.pc = "range"]) @@ (Child(n) :> BuildFrame)
  /\ UNCHANGED <<rootID, username, password, directory, pc, exitCode, tree, head,
                 wgInit, wgMain, gen, faults, orgMap, values, writes, pass, afterFirst,
                 search, domain, stdout, assigned>>

\* Mutant: the function returns without g.Done().
buildOrgTree_Done_missing(n) ==
  /\ Running /\ build[n].pc = "range"
  /\ build[n].i = Len(SubIds(n))
  /\ build' = SetBuild(n, [build[n] EXCEPT !.pc = "done"])
  /\ pc' = IF n = Root THEN "InitTree_Wait" ELSE pc
  /\ UNCHANGED <<rootID, username, password, directory, exitCode, tree, head, wgInit,
                 wgMain, gen, faults, orgMap, values, writes, pass, afterFirst,
                 search, domain, stdout, assigned>>

\* buildOrgTree, lines 84-85 and 98-99: the range is exhausted, the
\* function returns and the deferred g.Done() runs.  Done on a counter of
\* zero panics ("sync: negative WaitGroup counter", exit status 2).  The
\* root's activation returns to InitTree (line 78).
buildOrgTree_Done(n) ==
  /\ Running /\ build[n].pc = "range"
  /\ build[n].i = Len(SubIds(n))
  /\ build' = SetBuild(n, [build[n] EXCEPT !.pc = "done"])
  /\ IF wgInit = 0
       THEN Exit(2) /\ wgInit' = wgInit
       ELSE /\ wgInit' = wgInit - 1
            /\ pc' = IF n = Root THEN "InitTree_Wait" ELSE pc
            /\ exitCode' = exitCode
  /\ UNCHANGED <<rootID, username, password, directory, tree, head,
                 wgMain, gen, faults, orgMap, values, writes, pass, afterFirst,
                 search, domain, stdout, assigned>>

\* The steps of the buildOrgTree activations of all goroutines.
buildOrgTree ==
  \/ \E n \in DOMAIN build : buildOrgTree_range(n)
  \/ \E n \in DOMAIN build : buildOrgTree_reply(n, 200)
  \/ \E n \in DOMAIN build : buildOrgTree_reply(n, 500)
  \/ \E n \in DOMAIN build : buildOrgTree_error(n)
  \/ \E n \in DOMAIN build : buildOrgTree_Lock(n)
  \/ \E n \in DOMAIN build : buildOrgTree_append(n)
  \/ \E n \in DOMAIN build : buildOrgTree_Unlock(n)
  \/ \E n \in DOMAIN build : buildOrgTree_Add(n)
  \/ \E n \in DOMAIN build : buildOrgTree_go(n)
  \/ \E n \in DOMAIN build : buildOrgTree_Done(n)

\* --------------------------------------------------- generateApplications
SetGen(n, frame) == [gen EXCEPT ![n] = frame]
Environments(n) == tree[n].BusinessOrganization.Environments

\* A fresh activation of generateApplications: e environments and c
\* children have been taken from the two range loops.
GenFrame == [pc |-> "range", e |-> 0, c |-> 0]

\* Mutant: the x-anypnt-env-id header is not that of the environment asked for.
getDeployedArtifacts_otherEnvironment(environment) == InventoryOf("env-1")

\* getDeployedArtifacts followed by json.Unmarshal, on a 200 reply.
getDeployedArtifacts(environment) == InventoryOf(environment)

\* main, line 231: g.Add(1).
main_Add ==
  /\ Running /\ pc = "main_Add"
  /\ wgMain' = wgMain + 1
  /\ pc' = "main_call"
  /\ UNCHANGED <<rootID, username, password, directory, exitCode, tree, head,
                 wgInit, build, gen, faults, orgMap, values, writes, pass, afterFirst,
                 search, domain, stdout, assigned>>

\* main, line 232: generateApplications(head, g), on the main goroutine.
main_call ==
  /\ Running /\ pc = "main_call"
  /\ gen' = (head :> GenFrame)
  /\ pass' = pass + 1
  /\ assigned' = <<>>
  /\ pc' = "main_generate"
  /\ UNCHANGED <<rootID, username, password, directory, exitCode, tree, head,
                 wgInit, wgMain, build, faults, orgMap, values, writes, afterFirst,
                 search, domain, stdout>>

\* Mutant: main does not wait for the pass.
main_Wait_missing ==
  /\ Running /\ pc = "main_Wait"
  /\ afterFirst' = IF pass = 1 THEN tree ELSE afterFirst
  /\ pc' = "write1"
  /\ UNCHANGED <<rootID, username, password, directory, exitCode, tree, head,
                 wgInit, wgMain, build, gen, faults, orgMap, values, writes, pass,
                 search, domain, stdout, assigned>>

\* main, line 233: g.Wait().
main_Wait ==
  /\ Running /\ pc = "main_Wait"
  /\ WaitReturns(wgMain)
  /\ afterFirst' = IF pass = 1 THEN tree ELSE afterFirst
  /\ pc' = "write1"
  /\ UNCHANGED <<rootID, username, password, directory, exitCode, tree, head,
                 wgInit, wgMain, build, gen, faults, orgMap, values, writes, pass,
                 search, domain, stdout, assigned>>

\* generateApplications, lines 178-179: the next environment; the request
\* for its applications is sent.
generateApplications_range(n) ==
  /\ Running /\ gen[n].pc = "range"
  /\ gen[n].e < Len(Environments(n))
  /\ gen' = SetGen(n, [gen[n] EXCEPT !.pc = "http", !.e = @ + 1])
  /\ UNCHANGED <<rootID, username, password, directory, pc, exitCode, tree, head,
                 wgInit, wgMain, build, faults, orgMap, values, writes, pass, afterFirst,
                 search, domain, stdout, assigned>>

\* Mutant: the decoded applications are appended to the list.
Assigned_appended(old, applications) == old \o applications

\* The value environment.Applications takes at line 183.
Assigned(old, applications) == applications

\* The log of assignments with one more: task wrote the Applications of
\* environment (the env-th Environment of a node).
Noted(log, environment, task) ==
  [x \in DOMAIN log \cup {environment} |->
     IF x = environment
       THEN (IF x \in DOMAIN log THEN log[x] ELSE <<>>) \o <<task>>
       ELSE log[x]]

\* Mutant: the Environment is replaced by a new one that holds only the
\* applications (*environment = Environment{Applications: applications}).
generateApplications_reply_newEnvironment(n) ==
  /\ Running /\ gen[n].pc = "http"
  /\ tree' = [tree EXCEPT ![n].BusinessOrganization.Environments[gen[n].e] =
                 [ID |-> "", Name |-> "",
                  Applications |-> getDeployedArtifacts(Environments(n)[gen[n].e].ID)]]
  /\ assigned' = Noted(assigned, [node |-> n, env |-> gen[n].e], n)
  /\ gen' = SetGen(n, [gen[n] EXCEPT !.pc = "range"])
  /\ UNCHANGED <<rootID, username, password, directory, pc, exitCode, head,
                 wgInit, wgMain, build, faults, orgMap, values, writes, pass, afterFirst,
                 search, domain, stdout>>

\* generateApplications, lines 179-183: the 200 reply is decoded and
\* assigned to environment.Applications; the assignment is logged.
generateApplications_reply(n) ==
  /\ Running /\ gen[n].pc = "http"
  /\ tree' = [tree EXCEPT ![n].BusinessOrganization.Environments[gen[n].e].Applications
                 = Assigned(@, getDeployedArtifacts(Environments(n)[gen[n].e].ID))]
  /\ assigned' = Noted(assigned, [node |-> n, env |-> gen[n].e], n)
  /\ gen' = SetGen(n, [gen[n] EXCEPT !.pc = "range"])
  /\ UNCHANGED <<rootID, username, password, directory, pc, exitCode, head,
                 wgInit, wgMain, build, faults, orgMap, values, writes, pass, afterFirst,
                 search, domain, stdout>>

\* getDeployedArtifacts, lines 143-146: a status other than 200 ends the
\* process with status 1.
generateApplications_status(n) ==
  /\ Running /\ gen[n].pc = "http"
  /\ Exit(1)
  /\ faults' = Append(faults, "inventory status")
  /\ UNCHANGED <<rootID, username, password, directory, tree, head, wgInit, wgMain,
                 build, gen, orgMap, values, writes, pass, afterFirst,
                 search, domain, stdout, assigned>>

\* getDeployedArtifacts, lines 132-133, 139-140, 148-149: errorCheck.
generateApplications_error(n) ==
  /\ Running /\ gen[n].pc = "http"
  /\ Exit(1)
  /\ faults' = Append(faults, "inventory transport")
  /\ UNCHANGED <<rootID, username, password, directory, tree, head, wgInit, wgMain,
                 build, gen, orgMap, values, writes, pass, afterFirst,
                 search, domain, stdout, assigned>>

\* Mutant: the child is started without g.Add(1).
generateApplications_Add_missing(n) ==
  /\ Running /\ gen[n].pc = "range"
  /\ gen[n].e = Len(Environments(n))
  /\ gen[n].c < Len(tree[n].Children)
  /\ gen' = SetGen(n, [gen[n] EXCEPT !.pc = "go", !.c = @ + 1])
  /\ UNCHANGED <<rootID, username, password, directory, pc, exitCode, tree, head,
                 wgInit, wgMain, build, faults, orgMap, values, writes, pass, afterFirst,
                 search, domain, stdout, assigned>>

\* generateApplications, lines 186-187: the next child, and g.Add(1).
generateApplications_Add(n) ==
  /\ Running /\ gen[n].pc = "range"
  /\ gen[n].e = Len(Environments(n))
  /\ gen[n].c < Len(tree[n].Children)
  /\ wgMain' = wgMain + 1
  /\ gen' = SetGen(n, [gen[n] EXCEPT !.pc = "go", !.c = @ + 1])
  /\ UNCHANGED <<rootID, username, password, directory, pc, exitCode, tree, head,
                 wgInit, build, faults, orgMap, values, writes, pass, afterFirst,
                 search, domain, stdout, assigned>>

\* generateApplications, line 188: go generateApplications(c, g).
generateApplications_go(n) ==
  /\ Running /\ gen[n].pc = "go"
  /\ gen' = SetGen(n, [gen[n] EXCEPT !.pc = "range"])
              @@ (tree[n].Children[gen[n].c] :> GenFrame)
  /\ UNCHANGED <<rootID, username, password, directory, pc, exitCode, tree, head,
                 wgInit, wgMain, build, faults, orgMap, values, writes, pass, afterFirst,
                 search, domain, stdout, assigned>>

\* generateApplications, lines 177 and 189-190: both ranges are exhausted
\* and the deferred g.Done() runs; the activation called by main returns
\* to line 233.
generateApplications_Done(n) ==
  /\ Running /\ gen[n].pc = "range"
  /\ gen[n].e = Len(Environments(n))
  /\ gen[n].c = Len(tree[n].Children)
  /\ gen' = SetGen(n, [gen[n] EXCEPT !.pc = "done"])
  /\ IF wgMain = 0
       THEN Exit(2) /\ wgMain' = wgMain
       ELSE /\ wgMain' = wgMain - 1
            /\ pc' = IF n = head THEN "main_Wait" ELSE pc
            /\ exitCode' = exitCode
  /\ UNCHANGED <<rootID, username, password, directory, tree, head,
                 wgInit, build, faults, orgMap, values, writes, pass, afterFirst,
                 search, domain, stdout, assigned>>

\* ------------------------------------------------------------ flattenTree
\* orgMap[key] = value on a Go map.
Put(m, key, value) ==
  [k \in DOMAIN m \cup {key} |-> IF k = key THEN value ELSE m[k]]

\* flattenTree, lines 192-198, on the nodes t: the organization of p is
\* stored under its name, then the children are visited in the order of
\* p.Children, each on the map the previous one left (FlattenChildren is
\* the range loop of lines 195-197 from the k-th child on).
RECURSIVE flattenTree(_, _, _), FlattenChildren(_, _, _, _)
flattenTree(t, p, m) ==
  FlattenChildren(t, t[p].Children, 1,
                  Put(m, t[p].BusinessOrganization.Name, t[p].BusinessOrganization))

\* Mutant: the range over p.Children misses the first child.
FlattenChildren_fromSecond(t, children, k, m) ==
  IF k > Len(children) THEN m
  ELSE FlattenChildren(t, children, k + 1,
                       IF k = 1 THEN m ELSE flattenTree(t, children[k], m))

FlattenChildren(t, children, k, m) ==
  IF k > Len(children) THEN m
  ELSE FlattenChildren(t, children, k + 1, flattenTree(t, children[k], m))

\* The orders in which `range orgMap` may deliver the keys of m.
RangeOrders(m) == {s \in SeqsNoDup(DOMAIN m) : Len(s) = Cardinality(DOMAIN m)}

\* --------------------------------------------------------------- main, 2
\* writeMetricsFile, lines 200-213: json.MarshalIndent, os.Create or
\* f.Write may fail; the call is recorded with its outcome.
WriteOutcomes == {"ok", "marshal", "create", "write"}

writeMetricsFile(data, filename, outcome) ==
  Append(writes, [filename |-> filename, data |-> data, outcome |-> outcome])

\* main, lines 235-237: the tree is written; errorCheck(err).
main_write1 ==
  /\ Running /\ pc = "write1"
  /\ \E outcome \in WriteOutcomes :
       /\ writes' = writeMetricsFile([head |-> head, nodes |-> tree],
                                     "metrics.json", outcome)
       /\ IF outcome = "ok"
            THEN pc' = "flatten" /\ exitCode' = exitCode
            ELSE Exit(1)
  /\ UNCHANGED <<rootID, username, password, directory, tree, head, wgInit, wgMain,
                 build, gen, faults, orgMap, values, pass, afterFirst,
                 search, domain, stdout, assigned>>

\* main, lines 240-241: flattenTree(head, orgMap) on an empty map.
main_flatten ==
  /\ Running /\ pc = "flatten"
  /\ orgMap' = flattenTree(tree, head, <<>>)
  /\ pc' = "values"
  /\ UNCHANGED <<rootID, username, password, directory, exitCode, tree, head, wgInit,
                 wgMain, build, gen, faults, values, writes, pass, afterFirst,
                 search, domain, stdout, assigned>>

\* main, lines 242-246: the values of the map, in the order of the range.
main_values ==
  /\ Running /\ pc = "values"
  /\ \E order \in RangeOrders(orgMap) :
       values' = [k \in 1..Len(order) |-> orgMap[order[k]]]
  /\ pc' = "write2"
  /\ UNCHANGED <<rootID, username, password, directory, exitCode, tree, head, wgInit,
                 wgMain, build, gen, faults, orgMap, writes, pass, afterFirst,
                 search, domain, stdout, assigned>>

\* main, lines 248-251: the flat collection is written; main returns.
main_write2 ==
  /\ Running /\ pc = "write2"
  /\ \E outcome \in WriteOutcomes :
       /\ writes' = writeMetricsFile(values, "metrics_flat.json", outcome)
       /\ IF outcome = "ok"
            THEN pc' = "done" /\ exitCode' = 0
            ELSE Exit(1)
  /\ UNCHANGED <<rootID, username, password, directory, tree, head, wgInit, wgMain,
                 build, gen, faults, orgMap, values, pass, afterFirst,
                 search, domain, stdout, assigned>>

\* ------------------------------------------------------------------- Next
\* The steps of the generateApplications activations of all goroutines.
generateApplications ==
  \/ \E n \in DOMAIN gen : generateApplications_range(n)
  \/ \E n \in DOMAIN gen : generateApplications_reply(n)
  \/ \E n \in DOMAIN gen : generateApplications_status(n)
  \/ \E n \in DOMAIN gen : generateApplications_error(n)
  \/ \E n \in DOMAIN gen : generateApplications_Add(n)
  \/ \E n \in DOMAIN gen : generateApplications_go(n)
  \/ \E n \in DOMAIN gen : generateApplications_Done(n)

InitTree ==
  \/ InitTree_reply(200)
  \/ InitTree_reply(500)
  \/ InitTree_error
  \/ InitTree_Add
  \/ InitTree_call
  \/ InitTree_Wait

main ==
  \/ main_flags
  \/ main_Add
  \/ main_call
  \/ main_Wait
  \/ main_write1
  \/ main_flatten
  \/ main_values
  \/ main_write2

Next ==
  \/ main
  \/ InitTree
  \/ buildOrgTree
  \/ generateApplications

Spec == Init /\ [][Next]_vars

\* ================================================================= claims
InitTreeReturned == head # <<>>
Last(path) == path[Len(path)]
Range(seq) == {seq[k] : k \in 1..Len(seq)}

\* The paths of directory d that start at the root id: one per way of
\* reaching an organization from the root.
RECURSIVE PathsFrom(_, _)
PathsFrom(d, path) ==
  {path} \cup UNION {PathsFrom(d, path \o <<c>>) : c \in Range(d[Last(path)])}

\* The nodes reachable from node n through Children.
RECURSIVE Descendants(_)
Descendants(n) == {n} \cup UNION {Descendants(c) : c \in Range(tree[n].Children)}

\* C1: once InitTree's g.Wait() has returned (InitTree has handed the root
\* to main), every node that was created has had its buildOrgTree
\* activation started and that activation has executed g.Done(): none is
\* still registered, running or about to append.
C1_NoPrematureCompletion ==
  InitTreeReturned =>
    /\ wgInit = 0
    /\ \A n \in DOMAIN tree : n \in DOMAIN build /\ build[n].pc = "done"

\* C1 witness: InitTree has returned after the buildOrgTree tasks of at
\* least three nodes were registered, started and done.
C1_Witness ==
  /\ InitTreeReturned
  /\ Cardinality(DOMAIN build) >= 3
  /\ \A n \in DOMAIN build : build[n].pc = "done"

\* The ids of the children of node n.
ChildIds(n) == {tree[c].BusinessOrganization.ID : c \in Range(tree[n].Children)}

\* C2 as stated: when InitTree has returned and every lookup was answered
\* with the directory's data, the tree has exactly one node per organization
\* reachable from the root id and every node's child ids are the ids the
\* directory lists for it.
C2_OneNodePerOrganization ==
  (InitTreeReturned /\ nonOK = 0) =>
    /\ \A id \in ReachableFrom(directory, {rootID}) :
         Cardinality({n \in DOMAIN tree : tree[n].BusinessOrganization.ID = id}) = 1
    /\ Cardinality(DOMAIN tree) = Cardinality(ReachableFrom(directory, {rootID}))
    /\ \A n \in DOMAIN tree :
         ChildIds(n) = Range(directory[tree[n].BusinessOrganization.ID])

\* C2 amended: when InitTree has returned and every lookup was answered
\* with the directory's data, the tree has exactly one node per path of the
\* directory from the root id (one per organization when each is listed by
\* one parent only), each node holds the organization of the id at the end
\* of its path, and its child ids are the ids the directory lists for it.
C2_OneNodePerPath ==
  (InitTreeReturned /\ nonOK = 0) =>
    /\ DOMAIN tree = PathsFrom(directory, <<rootID>>)
    /\ Descendants(head) = DOMAIN tree
    /\ \A n \in DOMAIN tree :
         /\ tree[n].BusinessOrganization.ID = Last(n)
         /\ tree[n].BusinessOrganization.Name = NameOf(Last(n))
         /\ tree[n].BusinessOrganization.SubOrganizationIds = directory[Last(n)]
         /\ Len(tree[n].Children) = Len(directory[Last(n)])
         /\ ChildIds(n) = Range(directory[Last(n)])

\* C2 witness: InitTree has returned the tree of a directory in which an
\* organization is listed by two parents (four nodes for three ids).
C2_Witness ==
  /\ InitTreeReturned /\ nonOK = 0
  /\ Cardinality(DOMAIN tree) = 4
  /\ Cardinality(ReachableFrom(directory, {rootID})) = 3

\* The position(s) of p.Children that hold the node built for the k-th id
\* of p's SubOrganizationIds.
BuiltFor(p, k) == {j \in 1..Len(tree[p].Children) : tree[p].Children[j] = p \o <<SubIds(p)[k]>>}

ExpansionComplete(p) ==
  /\ Len(tree[p].Children) = Len(SubIds(p))
  /\ \A k \in 1..Len(SubIds(p)) : Cardinality(BuiltFor(p, k)) = 1

\* C3: in every state in which the buildOrgTree task of p has executed
\* g.Done(), p.Children holds exactly one node per id of p's
\* SubOrganizationIds (as many children as ids, none missing, none twice),
\* and no later step changes p.Children.
C3_AllOrNothing ==
  /\ [](\A p \in DOMAIN build : build[p].pc = "done" => ExpansionComplete(p))
  /\ [][\A p \in DOMAIN build :
          build[p].pc = "done" => tree'[p].Children = tree[p].Children]_vars

\* C3 witness: a task of a node with two ids is done, with both children.
C3_Witness ==
  \E p \in DOMAIN build :
    /\ build[p].pc = "done"
    /\ Len(SubIds(p)) = 2
    /\ Len(tree[p].Children) = 2

\* The fairness of the Go scheduler and of remote calls that return: a
\* step that stays possible is eventually taken.
FairSpec == Spec /\ WF_vars(Next)

\* C4: under fair scheduling, with every RemoteDirectory call returning
\* (a non-200 status included), InitTree eventually returns unless the
\* process has been ended by a failure.  A waiter blocked on a positive
\* counter with no task left to run would be a run that stops before the
\* return, which this excludes.
C4_Termination == <>(InitTreeReturned \/ exitCode > 0)

\* C4 witness: InitTree has returned although a lookup was answered with a
\* non-200 status, after the tasks of three nodes have run.
C4_Witness ==
  /\ InitTreeReturned
  /\ nonOK = 1
  /\ Cardinality(DOMAIN build) >= 3
  /\ wgInit = 0

\* The g.Wait() of main (line 233) has returned.
AfterEnrichWait ==
  \/ pc \in {"write1", "flatten", "values", "write2", "done"}
  \/ pc = "exited" /\ Len(writes) > 0

\* C5: when the g.Wait() that follows generateApplications(head, g) has
\* returned, every environment of every node reachable from the root holds
\* the applications RemoteInventory lists for its own id, and every node's
\* generateApplications task has run to its g.Done().
C5_EnrichComplete ==
  AfterEnrichWait =>
    /\ wgMain = 0
    /\ \A n \in Descendants(head) :
         /\ n \in DOMAIN gen /\ gen[n].pc = "done"
         /\ \A k \in 1..Len(Environments(n)) :
              Environments(n)[k].Applications = InventoryOf(Environments(n)[k].ID)

\* C5 witness: the wait has returned on a tree of three or more nodes, one
\* of them with two environments, one holding two applications.
C5_Witness ==
  /\ AfterEnrichWait
  /\ Cardinality(Descendants(head)) >= 3
  /\ \E n \in Descendants(head) :
       /\ Len(Environments(n)) = 2
       /\ Len(Environments(n)[2].Applications) = 2

\* ------------------------------------------------- the Enricher run twice
\* A second Enricher pass over the same tree (main, lines 231-233, once
\* more), started when the first has been waited for.
main_again ==
  /\ Running /\ pc = "write1" /\ pass = 1
  /\ pc' = "main_Add"
  /\ UNCHANGED <<rootID, username, password, directory, exitCode, tree, head, wgInit,
                 wgMain, build, gen, faults, orgMap, values, writes, pass, afterFirst,
                 search, domain, stdout, assigned>>

TwiceSpec == Init /\ [][Next \/ main_again]_vars

\* C6: when the wait of a second Enricher pass has returned, every
\* environment of the tree holds the application list it held when the
\* first pass had been waited for (the tree is the same in every field).
C6_EnrichIdempotent ==
  (AfterEnrichWait /\ pass = 2) =>
    /\ tree = afterFirst
    /\ \A n \in DOMAIN tree : \A k \in 1..Len(Environments(n)) :
         Environments(n)[k].Applications
           = afterFirst[n].BusinessOrganization.Environments[k].Applications

\* C6 witness: a second pass has been waited for on a tree that has an
\* environment with two applications.
C6_Witness ==
  /\ AfterEnrichWait /\ pass = 2
  /\ \E n \in DOMAIN tree : \E k \in 1..Len(Environments(n)) :
       Len(Environments(n)[k].Applications) = 2

\* --------------------------------------------------------------- flatten
\* flattenTree(head, orgMap) of main has run.
Flattened ==
  \/ pc \in {"values", "write2", "done"}
  \/ pc = "exited" /\ Len(writes) = 2

NodeName(n) == tree[n].BusinessOrganization.Name

\* The tree is A with the two children B and C, in either order.
IsTreeABC ==
  /\ DOMAIN tree = {Root, Root \o <<2>>, Root \o <<3>>}
  /\ Range(tree[Root].Children) = {Root \o <<2>>, Root \o <<3>>}
  /\ NodeName(Root) = "A"
  /\ NodeName(Root \o <<2>>) = "B"
  /\ NodeName(Root \o <<3>>) = "C"

\* C7: for the tree A with children B and C, in either order of Children,
\* flattenTree leaves a map with exactly the three keys A, B and C, each
\* mapped to the Organization of the node of that name.
C7_FlattenABC ==
  (Flattened /\ IsTreeABC) =>
    /\ DOMAIN orgMap = {"A", "B", "C"}
    /\ \A n \in DOMAIN tree : orgMap[NodeName(n)] = tree[n].BusinessOrganization

\* C7 witness: the tree A with Children C, B has been flattened.
C7_Witness ==
  /\ Flattened /\ IsTreeABC
  /\ tree[Root].Children = <<Root \o <<3>>, Root \o <<2>>>>
  /\ Cardinality(DOMAIN orgMap) = 3

\* ------------------------------------------ flattenTree on reordered trees
\* The tree a directory d describes, with organization id named names[id].
TreeOf(d, names) ==
  [n \in PathsFrom(d, Root) |->
     [mux |-> FALSE,
      BusinessOrganization |->
        [Name |-> names[Last(n)], ID |-> Last(n),
         SubOrganizationIds |-> d[Last(n)], Environments |-> EnvsOf(Last(n))],
      Children |-> [k \in 1..Len(d[Last(n)]) |-> n \o <<d[Last(n)][k]>>]]]

\* The trees that hold the nodes of t with each Children list in some order.
Reorderings(t) ==
  LET orders(n) == {c \in SeqsNoDup(Range(t[n].Children)) :
                     Len(c) = Len(t[n].Children)}
      all == UNION {orders(n) : n \in DOMAIN t}
  IN  {[n \in DOMAIN t |-> [t[n] EXCEPT !.Children = f[n]]] :
         f \in {g \in [DOMAIN t -> all] : \A n \in DOMAIN t : g[n] \in orders(n)}}

\* A built tree about to be flattened (main, line 240); organizations may
\* share a name.
InitFlat ==
  /\ rootID = 1 /\ username = "user" /\ password = "secret"
  /\ directory \in AcyclicDirectories
  /\ \E names \in [OrgIds -> {"A", "B"}] : tree = TreeOf(directory, names)
  /\ head = Root
  /\ pc = "flatten"
  /\ exitCode = -1
  /\ wgInit = 0 /\ wgMain = 0
  /\ build = <<>> /\ gen = <<>>
  /\ faults = <<>>
  /\ orgMap = <<>> /\ values = <<>> /\ writes = <<>>
  /\ pass = 0 /\ afterFirst = <<>>
  /\ search = <<>> /\ domain = "" /\ stdout = <<>> /\ assigned = <<>>

\* The flattened tree is replaced by one of its reorderings, to be
\* flattened again.
reorderChildren ==
  /\ pc = "values" /\ pass = 0
  /\ tree' \in Reorderings(tree)
  /\ pass' = 1
  /\ pc' = "flatten"
  /\ UNCHANGED <<rootID, username, password, directory, exitCode, head, wgInit,
                 wgMain, build, gen, faults, orgMap, values, writes, afterFirst,
                 search, domain, stdout, assigned>>

FlatSpec == InitFlat /\ [][main_flatten \/ reorderChildren]_vars

\* C8 as stated: flattening a tree and any reordering of its Children lists
\* gives the same map, key for key and value for value.
C8_FlattenOrderIndependent ==
  [][(pc = "flatten" /\ pass = 1) => orgMap' = orgMap]_vars

\* ------------------------------------------------------ writes and exits
AllTasksDone ==
  /\ wgInit = 0 /\ wgMain = 0
  /\ \A n \in DOMAIN tree :
       /\ n \in DOMAIN build /\ build[n].pc = "done"
       /\ n \in DOMAIN gen /\ gen[n].pc = "done"

\* C9: writeMetricsFile is called only after both waits have returned, with
\* no build or enrich task running then or later; it is called at most
\* twice, and a run that ends with status 0 has called it exactly twice,
\* first with the tree for metrics.json, then with the flat collection for
\* metrics_flat.json; flattenTree has run after the waits and before the
\* second call.
C9_WriterOrdering ==
  /\ Len(writes) > 0 => (InitTreeReturned /\ AfterEnrichWait /\ AllTasksDone)
  /\ orgMap # <<>> => (AfterEnrichWait /\ AllTasksDone /\ Len(writes) >= 1)
  /\ Len(writes) <= 2
  /\ Len(writes) = 2 => orgMap = flattenTree(tree, head, <<>>)
  /\ exitCode = 0 =>
       /\ Len(writes) = 2
       /\ writes[1] = [filename |-> "metrics.json",
                       data |-> [head |-> head, nodes |-> tree], outcome |-> "ok"]
       /\ writes[2] = [filename |-> "metrics_flat.json",
                       data |-> values, outcome |-> "ok"]

\* C9 witness: a run over three or more nodes has ended with status 0.
C9_Witness ==
  /\ exitCode = 0
  /\ Len(writes) = 2
  /\ Cardinality(DOMAIN tree) >= 3

\* C10 as stated: once a remote call has failed, by an error of the call or
\* by a non-200 status, from either service, the process never writes a
\* file and never ends with status 0; an error of the call ends it at once
\* with a non-zero status.
C10_FailFast ==
  faults # <<>> =>
    /\ Len(writes) = 0
    /\ exitCode # 0
    /\ (\E k \in 1..Len(faults) : faults[k] # "directory status") => exitCode > 0

\* ------------------------------------------------------ configuration error
MissingFlag == rootID = NoId \/ username = "" \/ password = ""

\* No remote call was issued, no task registered or started, no file written.
NoWorkDone ==
  /\ tree = <<>> /\ head = <<>> /\ faults = <<>>
  /\ wgInit = 0 /\ wgMain = 0
  /\ build = <<>> /\ gen = <<>>
  /\ orgMap = <<>> /\ values = <<>> /\ writes = <<>>

\* C11: when rootid, username or password is empty, main is either at its
\* first statement or has ended with a non-zero status, no remote call has
\* been issued, no task registered or started and no file written; and the
\* one step main takes from its first statement ends it with status 1.
C11_ConfigErrorFirst ==
  /\ [](MissingFlag =>
         /\ pc \in {"main", "exited"}
         /\ pc = "exited" => exitCode > 0
         /\ NoWorkDone)
  /\ [][(MissingFlag /\ pc = "main") => (exitCode' = 1 /\ pc' = "exited")]_vars

\* C11 witness: a run given a root id and a password but no username has
\* ended with status 1.
C11_Witness ==
  /\ rootID = 1 /\ username = "" /\ password = "secret"
  /\ pc = "exited" /\ exitCode = 1

\* ------------------------------------------------------- searchForArtifact
\* searchForArtifact is defined but not called by main; it is run here by a
\* caller that uses it as main uses generateApplications (lines 231-233):
\* g.Add(1), the call on the root, g.Wait().
SetSearch(n, frame) == [search EXCEPT ![n] = frame]

\* A fresh activation of searchForArtifact: e environments, a applications
\* of the current reply and c children have been taken from the range loops.
SearchFrame == [pc |-> "range", e |-> 0, a |-> 0, c |-> 0]

\* byteArray of the current iteration (line 157), and its decoding.
byteArray(n) == getDeployedArtifacts(Environments(n)[search[n].e].ID)

\* The tree of directory d after the Enricher pass.
EnrichedTreeOf(d) ==
  LET t == TreeOf(d, NameTable)
      enriched(envs) ==
        [k \in 1..Len(envs) |-> [envs[k] EXCEPT !.Applications = InventoryOf(envs[k].ID)]]
  IN  [n \in DOMAIN t |->
         [t[n] EXCEPT !.BusinessOrganization.Environments = enriched(@)]]

SearchDomains == {"x.example", "y.example", "q.example"}

\* An enriched tree and a domain, the caller about to start the search.
InitSearch ==
  /\ rootID = 1 /\ username = "user" /\ password = "secret"
  /\ directory \in AcyclicDirectories
  /\ tree = EnrichedTreeOf(directory)
  /\ head = Root
  /\ pc = "search_Add"
  /\ exitCode = -1
  /\ wgInit = 0 /\ wgMain = 0
  /\ build = <<>> /\ gen = <<>>
  /\ faults = <<>>
  /\ orgMap = <<>> /\ values = <<>> /\ writes = <<>>
  /\ pass = 0 /\ afterFirst = <<>>
  /\ search = <<>>
  /\ domain \in SearchDomains
  /\ stdout = <<>>
  /\ assigned = <<>>

\* The caller: g.Add(1).
caller_Add ==
  /\ Running /\ pc = "search_Add"
  /\ wgMain' = wgMain + 1
  /\ pc' = "search_call"
  /\ UNCHANGED <<rootID, username, password, directory, exitCode, tree, head,
                 wgInit, build, gen, faults, orgMap, values, writes, pass,
                 afterFirst, search, domain, stdout, assigned>>

\* The caller: searchForArtifact(head, domain, g), on its own goroutine.
caller_call ==
  /\ Running /\ pc = "search_call"
  /\ search' = (head :> SearchFrame)
  /\ pc' = "search_run"
  /\ UNCHANGED <<rootID, username, password, directory, exitCode, tree, head,
                 wgInit, wgMain, build, gen, faults, orgMap, values, writes, pass,
                 afterFirst, domain, stdout, assigned>>

\* The caller: g.Wait().
caller_Wait ==
  /\ Running /\ pc = "search_Wait"
  /\ WaitReturns(wgMain)
  /\ pc' = "search_done"
  /\ UNCHANGED <<rootID, username, password, directory, exitCode, tree, head,
                 wgInit, wgMain, build, gen, faults, orgMap, values, writes, pass,
                 afterFirst, search, domain, stdout, assigned>>

\* searchForArtifact, lines 157-158: the next environment; the request for
\* its applications is sent.
searchForArtifact_range(n) ==
  /\ Running /\ search[n].pc = "range"
  /\ search[n].e < Len(Environments(n))
  /\ search' = SetSearch(n, [search[n] EXCEPT !.pc = "http", !.e = @ + 1])
  /\ UNCHANGED <<rootID, username, password, directory, pc, exitCode, tree, head,
                 wgInit, wgMain, build, gen, faults, orgMap, values, writes, pass,
                 afterFirst, domain, stdout, assigned>>

\* searchForArtifact, lines 158-160: the 200 reply is decoded.
searchForArtifact_reply(n) ==
  /\ Running /\ search[n].pc = "http"
  /\ search' = SetSearch(n, [search[n] EXCEPT !.pc = "apps", !.a = 0])
  /\ UNCHANGED <<rootID, username, password, directory, pc, exitCode, tree, head,
                 wgInit, wgMain, build, gen, faults, orgMap, values, writes, pass,
                 afterFirst, domain, stdout, assigned>>

\* getDeployedArtifacts, lines 143-146: a status other than 200.
searchForArtifact_status(n) ==
  /\ Running /\ search[n].pc = "http"
  /\ Exit(1)
  /\ faults' = Append(faults, "inventory status")
  /\ UNCHANGED <<rootID, username, password, directory, tree, head, wgInit, wgMain,
                 build, gen, orgMap, values, writes, pass, afterFirst,
                 search, domain, stdout, assigned>>

\* getDeployedArtifacts, lines 132-133, 139-140, 148-149: errorCheck.
searchForArtifact_error(n) ==
  /\ Running /\ search[n].pc = "http"
  /\ Exit(1)
  /\ faults' = Append(faults, "inventory transport")
  /\ UNCHANGED <<rootID, username, password, directory, tree, head, wgInit, wgMain,
                 build, gen, orgMap, values, writes, pass, afterFirst,
                 search, domain, stdout, assigned>>

\* searchForArtifact, lines 162-163: the next application of the reply and
\* the comparison of its Domain; after the last, back to the outer range.
searchForArtifact_app(n) ==
  /\ Running /\ search[n].pc = "apps"
  /\ search' = SetSearch(n,
       IF search[n].a = Len(byteArray(n))
         THEN [search[n] EXCEPT !.pc = "range"]
         ELSE [search[n] EXCEPT
                 !.a = @ + 1,
                 !.pc = IF byteArray(n)[search[n].a + 1].Domain = domain
                          THEN "Println" ELSE "apps"])
  /\ UNCHANGED <<rootID, username, password, directory, pc, exitCode, tree, head,
                 wgInit, wgMain, build, gen, faults, orgMap, values, writes, pass,
                 afterFirst, domain, stdout, assigned>>

\* What one print call adds to the standard output.
Printed(line, body) == [line |-> line, body |-> body]

\* searchForArtifact, line 164: fmt.Println("FOUND IT").
searchForArtifact_Println(n) ==
  /\ Running /\ search[n].pc = "Println"
  /\ stdout' = Append(stdout, Printed("FOUND IT", <<>>))
  /\ search' = SetSearch(n, [search[n] EXCEPT !.pc = "Printf"])
  /\ UNCHANGED <<rootID, username, password, directory, pc, exitCode, tree, head,
                 wgInit, wgMain, build, gen, faults, orgMap, values, writes, pass,
                 afterFirst, domain, assigned>>

\* searchForArtifact, line 165: fmt.Printf("%s", string(byteArray)), the
\* whole reply of the environment.
searchForArtifact_Printf(n) ==
  /\ Running /\ search[n].pc = "Printf"
  /\ stdout' = Append(stdout, Printed("", byteArray(n)))
  /\ search' = SetSearch(n, [search[n] EXCEPT !.pc = "apps"])
  /\ UNCHANGED <<rootID, username, password, directory, pc, exitCode, tree, head,
                 wgInit, wgMain, build, gen, faults, orgMap, values, writes, pass,
                 afterFirst, domain, assigned>>

\* searchForArtifact, lines 170-171: the next child, and g.Add(1).
searchForArtifact_Add(n) ==
  /\ Running /\ search[n].pc = "range"
  /\ search[n].e = Len(Environments(n))
  /\ search[n].c < Len(tree[n].Children)
  /\ wgMain' = wgMain + 1
  /\ search' = SetSearch(n, [search[n] EXCEPT !.pc = "go", !.c = @ + 1])
  /\ UNCHANGED <<rootID, username, password, directory, pc, exitCode, tree, head,
                 wgInit, build, gen, faults, orgMap, values, writes, pass,
                 afterFirst, domain, stdout, assigned>>

\* searchForArtifact, line 172: go searchForArtifact(v, domain, g).
searchForArtifact_go(n) ==
  /\ Running /\ search[n].pc = "go"
  /\ search' = SetSearch(n, [search[n] EXCEPT !.pc = "range"])
                 @@ (tree[n].Children[search[n].c] :> SearchFrame)
  /\ UNCHANGED <<rootID, username, password, directory, pc, exitCode, tree, head,
                 wgInit, wgMain, build, gen, faults, orgMap, values, writes, pass,
                 afterFirst, domain, stdout, assigned>>

\* searchForArtifact, lines 155 and 173-174: both ranges are exhausted and
\* the deferred g.Done() runs; the activation of the caller returns to it.
searchForArtifact_Done(n) ==
  /\ Running /\ search[n].pc = "range"
  /\ search[n].e = Len(Environments(n))
  /\ search[n].c = Len(tree[n].Children)
  /\ search' = SetSearch(n, [search[n] EXCEPT !.pc = "done"])
  /\ IF wgMain = 0
       THEN Exit(2) /\ wgMain' = wgMain
       ELSE /\ wgMain' = wgMain - 1
            /\ pc' = IF n = head THEN "search_Wait" ELSE pc
            /\ exitCode' = exitCode
  /\ UNCHANGED <<rootID, username, password, directory, tree, head,
                 wgInit, build, gen, faults, orgMap, values, writes, pass,
                 afterFirst, domain, stdout, assigned>>

\* The steps of the searchForArtifact activations of all goroutines.
searchForArtifact ==
  \/ \E n \in DOMAIN search : searchForArtifact_range(n)
  \/ \E n \in DOMAIN search : searchForArtifact_reply(n)
  \/ \E n \in DOMAIN search : searchForArtifact_status(n)
  \/ \E n \in DOMAIN search : searchForArtifact_error(n)
  \/ \E n \in DOMAIN search : searchForArtifact_app(n)
  \/ \E n \in DOMAIN search : searchForArtifact_Println(n)
  \/ \E n \in DOMAIN search : searchForArtifact_Printf(n)
  \/ \E n \in DOMAIN search : searchForArtifact_Add(n)
  \/ \E n \in DOMAIN search : searchForArtifact_go(n)
  \/ \E n \in DOMAIN search : searchForArtifact_Done(n)

caller ==
  \/ caller_Add
  \/ caller_call
  \/ caller_Wait

SearchSpec == InitSearch /\ [][caller \/ searchForArtifact]_vars

\* The items deployed under the environments of the tree, and the items of
\* the replies searchForArtifact has printed.
DeployedItems ==
  UNION {UNION {Range(InventoryOf(Environments(n)[k].ID)) :
                  k \in 1..Len(Environments(n))} : n \in Descendants(head)}
ReportedItems == UNION {Range(stdout[j].body) : j \in 1..Len(stdout)}

\* C12 as stated: when the wait that follows searchForArtifact(head, d, g)
\* has returned, the items printed are exactly the deployed items of the
\* tree whose Domain equals d: each of them is printed and no item of
\* another Domain is.
C12_SearchExact ==
  pc = "search_done" => ReportedItems = {i \in DeployedItems : i.Domain = domain}

\* ------------------------------------------------- registering and spawning
\* The node built for the k-th id of p's SubOrganizationIds.
ChildAt(p, k) == p \o <<SubIds(p)[k]>>

\* p's task has executed g.Add(1) for its k-th child.
Registered(p, k) ==
  \/ k < build[p].i
  \/ k = build[p].i /\ build[p].pc \in {"go", "range", "done"}

\* The task of node c has been started; it has executed g.Done().
Started(c) == c \in DOMAIN build
TaskDone(c) == c \in DOMAIN build /\ build[c].pc = "done"

\* C13 as stated: no state is reachable in which one child of p has marked
\* itself done while a later child of p is not yet registered (all K units
\* are registered before any of the K children can decrement the counter).
C13_AllRegisteredFirst ==
  \A p \in DOMAIN build : \A j, k \in 1..Len(SubIds(p)) :
    (j < k /\ TaskDone(ChildAt(p, j))) => Registered(p, k)

\* The children of p whose tasks are started and not done.
RunningChildren(p) ==
  {k \in 1..Len(SubIds(p)) : Started(ChildAt(p, k)) /\ ~TaskDone(ChildAt(p, k))}

\* C13 amended: a child is registered by its parent just before it is
\* spawned, one child at a time, while the parent's own unit is
\* outstanding: a child's task is started only when the parent has executed
\* g.Add(1) for it, and as long as the task of p is not done the counter
\* holds p's unit, one unit for each started and unfinished child of p and
\* one for the child p has registered and is about to spawn (so it is at
\* least 1 while p has a child left to register).
C13_RegisterBeforeSpawn ==
  \A p \in DOMAIN build :
    /\ \A k \in 1..Len(SubIds(p)) : Started(ChildAt(p, k)) => Registered(p, k)
    /\ build[p].pc # "done" =>
         wgInit >= 1 + Cardinality(RunningChildren(p))
                     + (IF build[p].pc = "go" THEN 1 ELSE 0)

\* C13 witness: the first child of p is done while p, whose own unit keeps
\* the counter positive, is still looking up its second child, which is
\* not registered.
C13_Witness ==
  \E p \in DOMAIN build :
    /\ Len(SubIds(p)) = 2
    /\ TaskDone(ChildAt(p, 1))
    /\ build[p].pc = "http" /\ build[p].i = 2
    /\ ~Registered(p, 2)
    /\ wgInit = 1

\* ------------------------------------------------------- order of Children
\* C14 as stated: the order of p.Children is the order in which the tasks
\* of the children completed, not the order of discovery: of two children
\* of p, the one that stands later in p.Children has not completed before
\* the one that stands earlier.
C14_OrderIsCompletionOrder ==
  \A p \in DOMAIN tree : \A j, k \in 1..Len(tree[p].Children) :
    (j < k /\ TaskDone(tree[p].Children[k])) => TaskDone(tree[p].Children[j])

\* C14 amended: in every state of every schedule p.Children holds, in the
\* order of p's SubOrganizationIds, the nodes built for the ids p's task
\* has handled so far; the order of Children is the order of discovery
\* whatever the order in which lookups return or children's tasks complete.
C14_OrderIsDiscoveryOrder ==
  \A p \in DOMAIN tree :
    /\ Len(tree[p].Children) <= Len(SubIds(p))
    /\ \A j \in 1..Len(tree[p].Children) : tree[p].Children[j] = ChildAt(p, j)

\* C14 witness: the second child of p has completed before the first, and
\* both stand in p.Children.
C14_Witness ==
  \E p \in DOMAIN tree :
    /\ Len(tree[p].Children) = 2
    /\ TaskDone(tree[p].Children[2])
    /\ ~TaskDone(tree[p].Children[1])

\* --------------------------------------------------------- sibling lookups
\* The RemoteDirectory lookups in flight: the task that made the call and
\* the id it asked for.
InFlight ==
  {[task |-> n, id |-> CurrentId(n)] : n \in {t \in DOMAIN build : build[t].pc = "http"}}

\* C15 as stated: the lookup of a child identifier is made by the task
\* launched for that identifier (each task resolves its own id), which is
\* what lets the lookups of two children of one parent be in flight
\* together.
C15_TaskResolvesOwnId ==
  \A l \in InFlight : Last(l.task) = l.id

\* C15 amended: the lookup of a child identifier is made by the task of
\* its parent, inside the parent's range loop, one id after another: while
\* the lookup of p's k-th id is in flight, the nodes of all earlier ids of
\* p have been built, appended and their tasks started, and no later id of
\* p has been looked up or built (so the lookups of two children of one
\* node are never in flight together; those of children of different
\* nodes can be).
C15_SiblingLookupsSequential ==
  \A l \in InFlight :
    LET p == l.task
        k == build[p].i
    IN  /\ l.id = SubIds(p)[k] /\ l.id # Last(p)
        /\ Len(tree[p].Children) = k - 1
        /\ \A j \in 1..(k - 1) : Started(ChildAt(p, j))
        /\ \A j \in k..Len(SubIds(p)) : ChildAt(p, j) \notin DOMAIN tree

\* C15 witness: two lookups are in flight at once, one made by the root's
\* task for its second child, one by the first child's task for a
\* grandchild.
C15_Witness ==
  /\ Cardinality(InFlight) = 2
  /\ \E l \in InFlight : l.task = Root /\ build[Root].i = 2
  /\ \E l \in InFlight : l.task = ChildAt(Root, 1)

\* ------------------------------------------------ writers of an Environment
\* The Environment objects of the tree: the k-th of node n.
EnvironmentsOfTree ==
  UNION {{[node |-> n, env |-> k] : k \in 1..Len(Environments(n))} : n \in DOMAIN tree}

\* A generateApplications task is registered or running.
EnrichActive == \E n \in DOMAIN gen : gen[n].pc # "done"

\* C16: in one Enricher pass every Environment is assigned by one task
\* only, the task of the node that owns it, and once only, and when the
\* wait has returned every Environment of the tree has been assigned; no
\* node is given a second task; and while a task of the pass can still
\* write, nothing else touches the tree: every buildOrgTree task is done and
\* main is inside the call or blocked in g.Wait(), so that its reads
\* (writeMetricsFile, flattenTree) come after the last write.
C16_SingleWriter ==
  /\ \A x \in DOMAIN assigned : assigned[x] = <<x.node>>
  /\ DOMAIN assigned \subseteq EnvironmentsOfTree
  /\ AfterEnrichWait => DOMAIN assigned = EnvironmentsOfTree
  /\ \A n \in DOMAIN gen :
       /\ n \in DOMAIN tree
       /\ gen[n].pc = "go" => tree[n].Children[gen[n].c] \notin DOMAIN gen
  /\ EnrichActive =>
       /\ pc \in {"main_generate", "main_Wait", "exited"}
       /\ InitTreeReturned /\ wgInit = 0
       /\ \A n \in DOMAIN build : build[n].pc = "done"

\* C16 witness: the wait has returned on a tree with three or more
\* Environments, each assigned once.
C16_Witness ==
  /\ pc = "write1"
  /\ Cardinality(EnvironmentsOfTree) >= 3
  /\ DOMAIN assigned = EnvironmentsOfTree

\* ------------------------------------------------------- shape of the tree
\* Everything of the tree t but the Applications of its Environments.
Shape(t) ==
  [n \in DOMAIN t |->
     [Children           |-> t[n].Children,
      SubOrganizationIds |-> t[n].BusinessOrganization.SubOrganizationIds,
      Name               |-> t[n].BusinessOrganization.Name,
      ID                 |-> t[n].BusinessOrganization.ID,
      Environments       |->
        [k \in 1..Len(t[n].BusinessOrganization.Environments) |->
           [ID   |-> t[n].BusinessOrganization.Environments[k].ID,
            Name |-> t[n].BusinessOrganization.Environments[k].Name]]]]

\* C17: a generateApplications task exists only when InitTree has returned
\* with every buildOrgTree task done, and from the start of the Enricher
\* pass on no step changes the shape of the tree: the nodes, each node's
\* Children, SubOrganizationIds, Name and ID and the number, ids and names
\* of its Environments stay as they are, only Applications is written.
C17_EnricherFrame ==
  /\ [](pass >= 1 =>
         /\ InitTreeReturned /\ wgInit = 0
         /\ \A n \in DOMAIN tree : n \in DOMAIN build /\ build[n].pc = "done")
  /\ [][pass >= 1 => Shape(tree)' = Shape(tree)]_vars
  /\ [][pass' # pass => tree' = tree]_vars

\* C17 witness: in the middle of a pass, one Environment holds its two
\* applications while the task of another node is waiting for a reply.
C17_Witness ==
  /\ pc \in {"main_generate", "main_Wait"}
  /\ \E n \in DOMAIN tree : \E k \in 1..Len(Environments(n)) :
       Len(Environments(n)[k].Applications) = 2
  /\ \E n \in DOMAIN gen : gen[n].pc = "http"

\* ---------------------------------------------------------- failed lookups
\* Node c was built from the reply to a lookup that failed: it holds the
\* zero Organization instead of the organization of the id asked for.
BuiltFromFailedLookup(c) ==
  /\ tree[c].BusinessOrganization = ZeroOrganization
  /\ tree[c].BusinessOrganization.ID # Last(c)

\* C18 as stated: when the lookup of a child identifier has failed, the
\* process has ended with a non-zero status or no node for that identifier
\* stands in the parent's Children; the tree InitTree returns holds no node
\* built from a failed lookup.
C18_FailedSubtreeOmitted ==
  \A p \in DOMAIN tree : \A c \in Range(tree[p].Children) :
    BuiltFromFailedLookup(c) => exitCode > 0

\* ------------------------------------------------------ a cyclic directory
\* Directory d with id j listed once more, at the end of the list of i.
WithLink(d, i, j) == [d EXCEPT ![i] = Append(@, j)]

\* Some organization reachable from the root is its own descendant.
HasCycle(d) ==
  \E i \in ReachableFrom(d, {1}) : i \in ReachableFrom(d, Range(d[i]))

\* The acyclic directories in which no organization lists more than one.
Chains ==
  {a \in AcyclicDirectories :
     SumLen(a, NumOrgs) < MaxLinks /\ \A i \in OrgIds : Len(a[i]) <= 1}

\* The directories with a cycle: a chain and one more link, from the last
\* organization of the chain or the one before it (which then lists its
\* child first) back to itself or to an ancestor.
CyclicDirectories ==
  {c \in UNION {{WithLink(d, i, j) :
                    i \in {r \in ReachableFrom(d, {1}) :
                             d[r] = <<>> \/ d[d[r][1]] = <<>>},
                    j \in OrgIds} :
                  d \in Chains} :
     HasCycle(c)}

\* main about to call InitTree (line 229) on a directory with a cycle.
InitCyclic ==
  /\ rootID = 1 /\ username = "user" /\ password = "secret"
  /\ directory \in CyclicDirectories
  /\ pc = "InitTree"
  /\ exitCode = -1
  /\ tree = <<>> /\ head = <<>>
  /\ wgInit = 0 /\ wgMain = 0
  /\ build = <<>> /\ gen = <<>>
  /\ faults = <<>>
  /\ orgMap = <<>> /\ values = <<>> /\ writes = <<>>
  /\ pass = 0 /\ afterFirst = <<>>
  /\ search = <<>> /\ domain = "" /\ stdout = <<>> /\ assigned = <<>>

\* InitTree and the buildOrgTree tasks, up to InitTree's return.
CyclicSpec == InitCyclic /\ [][InitTree \/ buildOrgTree]_vars

\* C19: on a directory with a cycle reachable from the root id, as long as
\* every lookup is answered with the directory's data, InitTree's g.Wait()
\* does not return and, once the root's unit is registered, the counter is
\* never zero: there is always a task along the cycle that is registered
\* and not done.  (A reply with a non-200 status yields a node without
\* children and can cut the cycle; an error of the call ends the process.)
C19_NoReturnOnCycle ==
  /\ InitTreeReturned => nonOK > 0
  /\ (nonOK = 0 /\ pc \in {"InitTree_call", "InitTree_build", "InitTree_Wait"}) =>
       /\ wgInit >= 1
       /\ \E n \in DOMAIN build \cup {Root} : n \notin DOMAIN build \/ build[n].pc # "done"

\* C19 witness: every lookup was answered with the directory's data, a
\* task has been started for a node whose path holds one id twice and is
\* MaxDepth ids long, the root's task is done and InitTree is waiting.
C19_Witness ==
  /\ nonOK = 0 /\ Running
  /\ pc = "InitTree_Wait" /\ wgInit >= 1
  /\ \E n \in DOMAIN build :
       /\ Len(n) = MaxDepth
       /\ \E j, k \in 1..Len(n) : j < k /\ n[j] = n[k]

\* ------------------------------------------------- the three fan-out passes
\* The search run after the Enricher pass of main, on the tree main built
\* and with main's WaitGroup: the caller starts when g.Wait() of line 233
\* has returned, and searches for a domain deployed in two environments.
caller_start ==
  /\ Running /\ pc = "write1" /\ pass = 1
  /\ domain' = "x.example"
  /\ pc' = "search_Add"
  /\ UNCHANGED <<rootID, username, password, directory, exitCode, tree, head, wgInit,
                 wgMain, build, gen, faults, orgMap, values, writes, pass, afterFirst,
                 search, stdout, assigned>>

PassesSpec == Init /\ [][Next \/ caller_start \/ caller \/ searchForArtifact]_vars

\* The tasks of a pass with frames f that are registered and not done:
\* those started and not done and those registered by a g.Add(1) whose go
\* statement has not run yet.
Outstanding(f) ==
  Cardinality({n \in DOMAIN f : f[n].pc # "done"})
    + Cardinality({n \in DOMAIN f : f[n].pc = "go"})

\* The unit of the first task of a pass, registered by the caller at
\* position registered and started by its call at the next statement.
FirstUnit(called) == IF pc = called THEN 1 ELSE 0

\* C20: in each of the three passes the counter equals the number of tasks
\* registered and not done; no g.Done() finds it at zero (it is never
\* negative); it is at least 1 while a task of the pass is running or can
\* still register a child; and apart from the first registration of a
\* pass, made by the caller, no g.Add(1) is executed on a counter of 0.
C20_CounterInvariant ==
  /\ [](/\ wgInit = Outstanding(build) + FirstUnit("InitTree_call")
        /\ wgMain = Outstanding(gen) + FirstUnit("main_call")
                     + Outstanding(search) + FirstUnit("search_call")
        /\ wgInit >= 0 /\ wgMain >= 0 /\ exitCode # 2
        /\ (\E n \in DOMAIN build : build[n].pc # "done") => wgInit >= 1
        /\ (\E n \in DOMAIN gen : gen[n].pc # "done") => wgMain >= 1
        /\ (\E n \in DOMAIN search : search[n].pc # "done") => wgMain >= 1)
  /\ [][(wgInit' > wgInit /\ pc # "InitTree_Add") => wgInit >= 1]_vars
  /\ [][(wgMain' > wgMain /\ pc \notin {"main_Add", "search_Add"}) => wgMain >= 1]_vars

\* C20 witness: the build and the Enricher pass are over and two or more
\* tasks of the search are outstanding, one of them about to register a
\* child.
C20_Witness ==
  /\ pc \in {"search_run", "search_Wait"}
  /\ wgInit = 0 /\ wgMain >= 2
  /\ \A n \in DOMAIN tree : build[n].pc = "done" /\ gen[n].pc = "done"
  /\ \E n \in DOMAIN search :
       /\ search[n].pc = "range"
       /\ search[n].e = Len(Environments(n))
       /\ search[n].c < Len(tree[n].Children)
  /\ Cardinality({n \in DOMAIN search : search[n].pc # "done"}) >= 2

=============================================================================
